---- MODULE Spec2Model ----
(***************************************************************************)
(* A model of zerver/views/presence.py: the presence and user-status views *)
(* of the Zulip server.  The views are translated statement by statement;  *)
(* the library functions they call (the status store, the emoji catalog,   *)
(* the presence library, the user directory) are modelled from the design  *)
(* document, as their code lives in other files of the repository.         *)
(***************************************************************************)
EXTENDS Integers, Sequences, FiniteSets, TLC

VARIABLES
    status,     \* StatusStore: user -> StatusOverride row
    presence,   \* PresenceRecordStore: user -> client -> {} or {record}
    checkpoint, \* the realm's UpdateCheckpoint (last presence update id)
    now,        \* the clock, in seconds
    pc,         \* "idle": no request in progress; "responded": `resp` answers `req`
    req,        \* the request handled last
    pre,        \* the stores as they were when `req` arrived
    resp,       \* the response to `req`
    procs       \* concurrent status-update handlers: process -> its position

vars == <<status, presence, checkpoint, now, pc, req, pre, resp, procs>>

(***************************************************************************)
(* Optional values (Python's None): {} is None, {v} is the value v.        *)
(***************************************************************************)
None == {}
Some(v) == {v}
Val(x) == CHOOSE v \in x : TRUE
Opt(S) == {None} \cup {Some(v) : v \in S}

(***************************************************************************)
(* Status texts are sequences of one-character strings, so that stripping  *)
(* is computed and not assumed.                                            *)
(***************************************************************************)
RECURSIVE lstrip(_)
lstrip(s) == IF s # <<>> /\ Head(s) = " " THEN lstrip(Tail(s)) ELSE s

RECURSIVE rstrip(_)
rstrip(s) == IF s # <<>> /\ s[Len(s)] = " " THEN rstrip(SubSeq(s, 1, Len(s) - 1)) ELSE s

strip(s) == rstrip(lstrip(s))

\* StringConstraints(max_length=60) of the status_text parameter
MAX_STATUS_TEXT_LENGTH == 60

EmptyText == <<>>
BlankText == <<" ">>
PaddedText == <<" ", " ", "h", "i", " ">>
TooLongText == [i \in 1..(MAX_STATUS_TEXT_LENGTH + 1) |-> "x"]
StatusTexts == {BlankText, PaddedText, TooLongText}

(***************************************************************************)
(* Users of the realm.                                                     *)
(***************************************************************************)
Users == {"hamlet", "iago"}
IsRealmAdmin(u) == u = "iago"

(***************************************************************************)
(* The emoji catalog collaborator.                                         *)
(***************************************************************************)
UNICODE_EMOJI == "unicode_emoji"
ZULIP_EXTRA_EMOJI == "zulip_extra_emoji"

EmojiCatalog ==
    { [emoji_name |-> "smile", emoji_code |-> "1f604", reaction_type |-> UNICODE_EMOJI],
      [emoji_name |-> "zulip", emoji_code |-> "zulip", reaction_type |-> ZULIP_EXTRA_EMOJI] }

\* lookup(realmId, emojiName) -> (code, type) | NotFound
EmojiKnown(name) == \E e \in EmojiCatalog : e.emoji_name = name
get_emoji_data(name) == CHOOSE e \in EmojiCatalog : e.emoji_name = name

\* validate(realmId, name, code, type) -> ok | InvalidRequest
check_emoji_request(name, code, type) ==
    [emoji_name |-> name, emoji_code |-> code, reaction_type |-> type] \in EmojiCatalog

EmojiNames == {"", "smile", "zulip", "nosuch"}
EmojiCodes == {"", "1f604", "zulip"}
EmojiTypes == {"", UNICODE_EMOJI, ZULIP_EXTRA_EMOJI}

(***************************************************************************)
(* The status store.                                                       *)
(***************************************************************************)
\* A user without a stored row: not away, no text, no emoji.
DefaultStatus ==
    [away |-> FALSE, status_text |-> EmptyText,
     emoji_name |-> "", emoji_code |-> "", reaction_type |-> UNICODE_EMOJI]

\* do_update_user_status: merge the supplied values into the user's row.
\* The away flag and the text are written when supplied; the emoji reference
\* is written when a name is supplied, code and type with it.
do_update_user_status(store, user, a) ==
    LET old == store[user]
        new == [away |-> IF a.away # None THEN Val(a.away) ELSE old.away,
                status_text |-> IF a.status_text # None THEN Val(a.status_text)
                                ELSE old.status_text,
                emoji_name |-> IF a.emoji_name # None THEN Val(a.emoji_name)
                               ELSE old.emoji_name,
                emoji_code |-> IF a.emoji_name # None /\ a.emoji_code # None
                               THEN Val(a.emoji_code) ELSE old.emoji_code,
                reaction_type |-> IF a.emoji_name # None /\ a.reaction_type # None
                                  THEN Val(a.reaction_type) ELSE old.reaction_type]
    IN  [store EXCEPT ![user] = new]

(***************************************************************************)
(* update_user_status_backend                                              *)
(***************************************************************************)
StatusParams ==
    [away : Opt(BOOLEAN), status_text : Opt(StatusTexts), emoji_name : Opt(EmojiNames),
     emoji_code : Opt(EmojiCodes), emoji_type : Opt(EmojiTypes)]

\* Python truthiness of an optional string: neither None nor "".
Truthy(x) == x # None /\ Val(x) # ""

\* The status_text parameter as the endpoint receives it: stripped, and
\* refused when longer than the cap.
StatusTextParam(raw) ==
    IF raw = None THEN [ok |-> TRUE, value |-> None]
    ELSE LET s == strip(Val(raw))
         IN  IF Len(s) > MAX_STATUS_TEXT_LENGTH THEN [ok |-> FALSE, value |-> None]
             ELSE [ok |-> TRUE, value |-> Some(s)]

(***************************************************************************)
(* The errors of the status views (each a JsonableError).                  *)
(***************************************************************************)
ERR_TEXT_TOO_LONG == "status_text is too long"
ERR_NO_NEW_VALUES == "Client did not pass any new values."
ERR_NO_SUCH_EMOJI == "Emoji does not exist"
ERR_NAME_REQUIRED == "Client must pass emoji_name if they pass either emoji_code or reaction_type."
ERR_INVALID_EMOJI == "Invalid emoji"
ERR_PERMISSION == "Insufficient permission"

NoArgs ==
    [away |-> None, status_text |-> None, emoji_name |-> None,
     emoji_code |-> None, reaction_type |-> None]

Rejected(msg, lookup, checked) ==
    [error |-> msg, args |-> NoArgs, lookup |-> lookup, checked |-> checked]

\* A slip: the emoji name compared with "" where None is meant.
NoNewValuesEmptyName(away, status_text, emoji_name) ==
    away = None /\ status_text = None /\ emoji_name = Some("")

\* line 100: the request carries no new value
NoNewValues(away, status_text, emoji_name) ==
    away = None /\ status_text = None /\ emoji_name = None

\* line 122: emoji_code or reaction_type without emoji_name
CodeOrTypeWithoutName(emoji_type, emoji_code) == Truthy(emoji_type) \/ Truthy(emoji_code)

\* A slip: an absent away flag handed over as False.
StoreArgsAwayDefault(away, status_text, emoji_name, emoji_code, emoji_type) ==
    [away |-> IF away = None THEN Some(FALSE) ELSE away, status_text |-> status_text,
     emoji_name |-> emoji_name, emoji_code |-> emoji_code, reaction_type |-> emoji_type]

\* lines 137-145: the values handed to do_update_user_status
StoreArgs(away, status_text, emoji_name, emoji_code, emoji_type) ==
    [away |-> away, status_text |-> status_text, emoji_name |-> emoji_name,
     emoji_code |-> emoji_code, reaction_type |-> emoji_type]

\* Slips: the reset of the code, or of the type, left out.
ClearedCodeKept(emoji_code) == emoji_code
ClearedTypeKept(emoji_type) == emoji_type

\* lines 103-107: an empty emoji_name resets code and type
ClearedCode(emoji_code) == Some("")
ClearedType(emoji_type) == Some(UNICODE_EMOJI)

\* A slip: the catalog validation left out.
NeedsEmojiCheckNever(emoji_name) == FALSE

\* line 129: an emoji is being set, neither cleared ("") nor left alone (None)
NeedsEmojiCheck(emoji_name) == emoji_name # None /\ emoji_name # Some("")

\* The view up to the store call: the error raised, or the arguments of
\* do_update_user_status, with the catalog calls made on the way.
update_user_status_backend(p) ==
    LET text == StatusTextParam(p.status_text)
        status_text == IF text.value # None THEN Some(strip(Val(text.value))) ELSE None
        name == p.emoji_name
        clear == name = Some("")
        lookup == ~clear /\ name # None /\ (p.emoji_code = None \/ p.emoji_type = None)
        found == lookup => EmojiKnown(Val(name))
        emoji_code == IF clear THEN ClearedCode(p.emoji_code)
                      ELSE IF lookup /\ found /\ p.emoji_code = None
                      THEN Some(get_emoji_data(Val(name)).emoji_code)
                      ELSE p.emoji_code
        emoji_type == IF clear THEN ClearedType(p.emoji_type)
                      ELSE IF lookup /\ found /\ p.emoji_type = None
                      THEN Some(get_emoji_data(Val(name)).reaction_type)
                      ELSE p.emoji_type
        check == NeedsEmojiCheck(name)
    IN  IF ~text.ok THEN Rejected(ERR_TEXT_TOO_LONG, FALSE, FALSE)
        ELSE IF NoNewValues(p.away, status_text, name)
        THEN Rejected(ERR_NO_NEW_VALUES, FALSE, FALSE)
        ELSE IF lookup /\ ~found THEN Rejected(ERR_NO_SUCH_EMOJI, TRUE, FALSE)
        ELSE IF ~clear /\ name = None /\ CodeOrTypeWithoutName(p.emoji_type, p.emoji_code)
        THEN Rejected(ERR_NAME_REQUIRED, FALSE, FALSE)
        ELSE IF check /\ ~check_emoji_request(Val(name), Val(emoji_code), Val(emoji_type))
        THEN Rejected(ERR_INVALID_EMOJI, lookup, TRUE)
        ELSE [error |-> "",
              args |-> StoreArgs(p.away, status_text, name, emoji_code, emoji_type),
              lookup |-> lookup, checked |-> check]

(***************************************************************************)
(* The user directory collaborator.  Identifiers arrive as text, modelled  *)
(* as sequences of characters so that int() is computed.                   *)
(***************************************************************************)
Accounts == Users \cup {"polonius", "webhook-bot"}

UserId(a) == CASE a = "hamlet" -> 10 [] a = "iago" -> 11 [] a = "polonius" -> 12 [] OTHER -> 13

Email(a) ==
    CASE a = "hamlet" -> <<"h", "@", "z">> [] a = "iago" -> <<"i", "@", "z">>
      [] a = "polonius" -> <<"p", "@", "z">> [] OTHER -> <<"b", "@", "z">>

\* UserProfile.bot_type: None for a human
BotType(a) == IF a = "webhook-bot" THEN Some(1) ELSE None

DigitValue ==
    ("0" :> 0) @@ ("1" :> 1) @@ ("2" :> 2) @@ ("3" :> 3) @@ ("4" :> 4) @@
    ("5" :> 5) @@ ("6" :> 6) @@ ("7" :> 7) @@ ("8" :> 8) @@ ("9" :> 9)

\* int(user_id_or_email) succeeds
IsInt(s) == s # <<>> /\ \A i \in 1..Len(s) : s[i] \in DOMAIN DigitValue

RECURSIVE ParseInt(_)
ParseInt(s) ==
    IF s = <<>> THEN 0
    ELSE 10 * ParseInt(SubSeq(s, 1, Len(s) - 1)) + DigitValue[s[Len(s)]]

\* get_active_user_profile_by_id_in_realm / get_active_user: the matching accounts
UsersById(id) == {a \in Accounts : UserId(a) = id}
UsersByEmail(email) == {a \in Accounts : Email(a) = email}

\* settings.CAN_ACCESS_ALL_USERS_GROUP_LIMITS_PRESENCE
LIMITS_PRESENCE == TRUE

\* canView(target, requester): polonius, a guest, sees hamlet and himself only
check_can_access_user(target, requester) ==
    requester # "polonius" \/ target \in {"polonius", "hamlet"}

UserIdentifiers ==
    {<<"1", "0">>, <<"1", "1">>, <<"1", "2">>, <<"1", "3">>, <<"9", "9">>,
     Email("hamlet"), Email("iago"), Email("polonius"), Email("webhook-bot"),
     <<"x", "@", "z">>}

(***************************************************************************)
(* The presence record store and the presence library.                     *)
(***************************************************************************)
Clients == {"website", "mobile"}

\* PresenceRecord.pushable: the client can receive mobile push
Pushable(c) == c = "mobile"

\* The order of the client identifiers, for ties between timestamps.
ClientRank(c) == IF c = "mobile" THEN 1 ELSE 2

\* A slip: every string taken as a status.
StatusFromStringAny(str) == Some(str)

\* UserPresence.status_from_string: the fixed enumeration, or None
status_from_string(str) == IF str \in {"active", "idle"} THEN Some(str) ELSE None

\* The clients of a user that have a record.
ClientsOf(store, u) == {c \in Clients : u \in DOMAIN store /\ store[u][c] # None}
RecordOf(store, u, c) == Val(store[u][c])

\* A slip: the timestamp of a record drifts with the number of writes.
UpdateUserPresenceDrifting(store, cp, user, client, time, status_val) ==
    [store EXCEPT ![user][client] =
        Some([timestamp |-> time + cp, status |-> status_val, update_id |-> cp + 1])]

\* update_user_presence: write the record of (user, client) and advance the
\* realm's checkpoint; the record carries the checkpoint of its write.
update_user_presence(store, cp, user, client, time, status_val) ==
    [store EXCEPT ![user][client] =
        Some([timestamp |-> time, status |-> status_val, update_id |-> cp + 1])]

\* The record with the greatest timestamp; a tie goes to the first client.
MostRecentClient(store, u) ==
    CHOOSE c \in ClientsOf(store, u) :
        \A d \in ClientsOf(store, u) :
            \/ RecordOf(store, u, c).timestamp > RecordOf(store, u, d).timestamp
            \/ /\ RecordOf(store, u, c).timestamp = RecordOf(store, u, d).timestamp
               /\ ClientRank(c) <= ClientRank(d)

\* The library's aggregated entry: the most recent record as stored.
AggregatedEntry(store, u) ==
    LET r == RecordOf(store, u, MostRecentClient(store, u))
    IN  [status |-> r.status, timestamp |-> r.timestamp]

ClientEntry(store, u, c) ==
    [client |-> c, status |-> RecordOf(store, u, c).status,
     timestamp |-> RecordOf(store, u, c).timestamp, pushable |-> Pushable(c)]

\* The legacy presence mapping of a user: client name -> entry, and "aggregated".
PresenceDict(store, u) ==
    [k \in ClientsOf(store, u) \cup {"aggregated"} |->
        IF k = "aggregated" THEN AggregatedEntry(store, u) ELSE ClientEntry(store, u, k)]

\* A slip: a user without records reported with a default entry.
PresenceForUserWithDefault(store, u) ==
    [e \in {Email(u)} |->
        IF ClientsOf(store, u) = {} THEN [aggregated |-> [status |-> "offline", timestamp |-> 0]]
        ELSE PresenceDict(store, u)]

\* get_presence_for_user: email -> presence mapping; empty without records
get_presence_for_user(store, u) ==
    [e \in (IF ClientsOf(store, u) = {} THEN {} ELSE {Email(u)}) |-> PresenceDict(store, u)]

SECONDS_PER_DAY == 86400

\* The records of the requesting user the history limit leaves out.
WithinHistory(store, u, c, time, history_limit_days) ==
    \/ history_limit_days = None
    \/ RecordOf(store, u, c).timestamp >= time - Val(history_limit_days) * SECONDS_PER_DAY

\* The users get_presence_response reports on.
ReportedUsers(store, requester, time, history_limit_days) ==
    {u \in Users : \E c \in ClientsOf(store, u) :
                      u = requester => WithinHistory(store, u, c, time, history_limit_days)}

\* A slip: the change at the client's own checkpoint sent again.
ChangedSinceInclusive(store, last_update_id) ==
    {u \in Users : \E c \in ClientsOf(store, u) :
                      last_update_id = None \/ RecordOf(store, u, c).update_id >= Val(last_update_id)}

\* The users with a presence change after the checkpoint the client holds.
ChangedSince(store, last_update_id) ==
    {u \in Users : \E c \in ClientsOf(store, u) :
                      last_update_id = None \/ RecordOf(store, u, c).update_id > Val(last_update_id)}

\* get_presence_response: the full shape maps every reported user to the
\* legacy mapping; the slim shape maps every user changed since the client's
\* checkpoint to the aggregated entry.  Both carry the current checkpoint.
get_presence_response(store, cp, requester, time, slim_presence, last_update_id, history_limit_days) ==
    LET reported == ReportedUsers(store, requester, time, history_limit_days)
    IN  IF slim_presence
        THEN [presences |-> [u \in reported \cap ChangedSince(store, last_update_id) |->
                               AggregatedEntry(store, u)],
              presence_last_update_id |-> cp]
        ELSE [presences |-> [u \in reported |-> PresenceDict(store, u)],
              presence_last_update_id |-> cp]

(***************************************************************************)
(* get_presence_backend                                                    *)
(***************************************************************************)
\* settings.OFFLINE_THRESHOLD_SECS, scaled to the model's clock
OFFLINE_THRESHOLD_SECS == 1

ERR_NO_SUCH_USER == "No such user"
ERR_BOT_PRESENCE == "Presence is not supported for bot users."
ERR_NO_PRESENCE == "No presence data"

\* dict.pop(key, None)
Pop(d, key) == [k \in DOMAIN d \ {key} |-> d[k]]

\* A slip: the threshold itself counted as offline.
IsOverThresholdInclusive(duration) == duration >= OFFLINE_THRESHOLD_SECS

\* line 65
IsOverThreshold(duration) == duration > OFFLINE_THRESHOLD_SECS

\* lines 63-66: the aggregated entry, offline when older than the threshold
OfflineOverride(aggregated_info, time) ==
    IF IsOverThreshold(time - aggregated_info.timestamp)
    THEN [aggregated_info EXCEPT !.status = "offline"]
    ELSE aggregated_info

\* A slip: only the client identity removed.
StripInternalClientOnly(val) == Pop(val, "client")

\* lines 68-69
StripInternal(val) == Pop(Pop(val, "client"), "pushable")

\* lines 33-41: the target account, if any
ResolveTarget(user_id_or_email) ==
    IF IsInt(user_id_or_email) THEN UsersById(ParseInt(user_id_or_email))
    ELSE UsersByEmail(user_id_or_email)

get_presence_backend(store, time, requester, user_id_or_email) ==
    LET found == ResolveTarget(user_id_or_email)
        target == Val(found)
        presence_dict == get_presence_for_user(store, target)
        info == presence_dict[Email(target)]
        overridden == [info EXCEPT !["aggregated"] = OfflineOverride(info["aggregated"], time)]
    IN  IF found = {} THEN [error |-> ERR_NO_SUCH_USER]
        ELSE IF BotType(target) # None THEN [error |-> ERR_BOT_PRESENCE]
        ELSE IF LIMITS_PRESENCE /\ ~check_can_access_user(target, requester)
        THEN [error |-> ERR_PERMISSION]
        ELSE IF Cardinality(DOMAIN presence_dict) = 0 THEN [error |-> ERR_NO_PRESENCE]
        ELSE [error |-> "",
              presence |-> [k \in DOMAIN overridden |-> StripInternal(overridden[k])]]

(***************************************************************************)
(* update_active_status_backend and get_statuses_for_realm                 *)
(***************************************************************************)
ERR_INVALID_STATUS == "Invalid status"

StatusStrings == {"active", "idle", "bogus"}
LastUpdateIds == {0, 1}
HistoryLimits == {0}

HeartbeatParams ==
    [status : StatusStrings, ping_only : BOOLEAN, slim_presence : BOOLEAN,
     last_update_id : Opt(LastUpdateIds), history_limit_days : Opt(HistoryLimits)]

\* realm.is_zephyr_mirror_realm
IS_ZEPHYR_MIRROR_REALM == FALSE

\* The activity-log collaborator: the mirroring client was active in the last
\* five minutes; no record of it yields false.
ZephyrMirrorActive(user) == FALSE

\* A slip: the shape taken from the flag alone.
EffectiveSlimFlagOnly(p) == p.slim_presence

\* lines 188-191: last_update_id selects the modern API
EffectiveSlim(p) == IF p.last_update_id # None THEN TRUE ELSE p.slim_presence

\* lines 201-226: the response, built from the store as written
HeartbeatData(store, cp, user, time, p) ==
    LET ret == IF p.ping_only THEN <<>>
               ELSE get_presence_response(store, cp, user, time, EffectiveSlim(p),
                                          p.last_update_id, p.history_limit_days)
    IN  IF IS_ZEPHYR_MIRROR_REALM
        THEN [k \in DOMAIN ret \cup {"zephyr_mirror_active"} |->
                IF k = "zephyr_mirror_active" THEN ZephyrMirrorActive(user) ELSE ret[k]]
        ELSE ret

\* lines 233-236
get_statuses_for_realm(store, cp, requester, time) ==
    Pop(get_presence_response(store, cp, requester, time, FALSE, None, None),
        "presence_last_update_id")

(***************************************************************************)
(* update_user_status_admin                                                *)
(***************************************************************************)
AdminStatusParams ==
    [status_text : Opt(StatusTexts), emoji_name : Opt(EmojiNames),
     emoji_code : Opt(EmojiCodes), emoji_type : Opt(EmojiTypes)]

\* access_user_by_id(user_profile, user_id, for_admin=True): the target must
\* exist and the acting user must administer the realm.
access_user_by_id_for_admin(actor, target) == target \in Users /\ IsRealmAdmin(actor)

\* lines 152-163: the parameters the endpoint declares; a partial update is
\* read through them, and away is not among them.
AdminParamsOf(p) ==
    [status_text |-> p.status_text, emoji_name |-> p.emoji_name,
     emoji_code |-> p.emoji_code, emoji_type |-> p.emoji_type]

\* lines 165-172: the call of update_user_status_backend; away is not passed
AdminBackendParams(p) ==
    [away |-> None, status_text |-> p.status_text, emoji_name |-> p.emoji_name,
     emoji_code |-> p.emoji_code, emoji_type |-> p.emoji_type]

update_user_status_admin(actor, target, p) ==
    IF ~access_user_by_id_for_admin(actor, target)
    THEN Rejected(ERR_PERMISSION, FALSE, FALSE)
    ELSE update_user_status_backend(AdminBackendParams(p))

(***************************************************************************)
(* The state after construction.                                           *)
(***************************************************************************)
NoReq == [op |-> "none"]
NoResp == [error |-> ""]
Procs == {"p1", "p2"}
IdleProc == [pc |-> "idle"]

Init ==
    /\ status = [u \in Users |-> DefaultStatus]
    /\ presence = [u \in Users |-> [c \in Clients |-> None]]
    /\ checkpoint = 0
    /\ now = 0
    /\ pc = "idle"
    /\ req = NoReq
    /\ pre = [status |-> status, presence |-> presence, checkpoint |-> checkpoint]
    /\ resp = NoResp
    /\ procs = [p \in Procs |-> IdleProc]

Snapshot == [status |-> status, presence |-> presence, checkpoint |-> checkpoint]

(***************************************************************************)
(* Status requests, one at a time.                                         *)
(***************************************************************************)
\* The answer of a status update and the store after it.
StatusResponse(out) == [error |-> out.error, lookup |-> out.lookup, checked |-> out.checked]

StoreAfter(out, target) ==
    IF out.error = "" THEN do_update_user_status(status, target, out.args) ELSE status

\* POST /users/me/status
UpdateStatus(user, p) ==
    /\ pc = "idle"
    /\ LET out == update_user_status_backend(p)
       IN  /\ status' = StoreAfter(out, user)
           /\ resp' = StatusResponse(out)
    /\ req' = [op |-> "update_status", actor |-> user, target |-> user, params |-> p]
    /\ pre' = Snapshot
    /\ pc' = "responded"
    /\ UNCHANGED <<presence, checkpoint, now, procs>>

\* POST /users/{user_id}/status
UpdateStatusAdmin(actor, target, p) ==
    /\ pc = "idle"
    /\ LET out == update_user_status_admin(actor, target, p)
       IN  /\ status' = StoreAfter(out, target)
           /\ resp' = StatusResponse(out)
    /\ req' = [op |-> "update_status_admin", actor |-> actor, target |-> target,
               params |-> AdminBackendParams(p)]
    /\ pre' = Snapshot
    /\ pc' = "responded"
    /\ UNCHANGED <<presence, checkpoint, now, procs>>

\* access_user_by_id(user_profile, user_id, for_admin=False): the target exists
access_user_by_id(requester, target) == target \in Users

ERR_INVALID_USER == "No such user"

\* lines 73-77
get_status_backend(store, requester, target) ==
    IF ~access_user_by_id(requester, target) THEN [error |-> ERR_INVALID_USER]
    ELSE [error |-> "", status |-> store[target]]

\* GET /users/{user_id}/status
GetStatus(requester, target) ==
    /\ pc = "idle"
    /\ resp' = get_status_backend(status, requester, target)
    /\ req' = [op |-> "get_status", actor |-> requester, target |-> target]
    /\ pre' = Snapshot
    /\ pc' = "responded"
    /\ UNCHANGED <<status, presence, checkpoint, now, procs>>

\* The response has been delivered; the server waits for the next request.
Finish ==
    /\ pc = "responded"
    /\ pc' = "idle"
    /\ req' = NoReq
    /\ resp' = NoResp
    /\ pre' = Snapshot
    /\ UNCHANGED <<status, presence, checkpoint, now, procs>>

StatusNext ==
    \/ \E u \in Users, p \in StatusParams : UpdateStatus(u, p)
    \/ \E a \in Users, t \in Users, p \in AdminStatusParams : UpdateStatusAdmin(a, t, p)
    \/ \E r \in Users, t \in Users \cup {"polonius"} : GetStatus(r, t)
    \/ Finish

StatusSpec == Init /\ [][StatusNext]_vars

(***************************************************************************)
(* Presence requests, one at a time.                                       *)
(***************************************************************************)
MaxTime == 3
MaxWrites == 2

\* A second passes.
Tick ==
    /\ pc = "idle"
    /\ now < MaxTime
    /\ now' = now + 1
    /\ UNCHANGED <<status, presence, checkpoint, pc, req, pre, resp, procs>>

\* A slip: the response built before the record is written.
HeartbeatAnswersFirst(user, client, p) ==
    /\ pc = "idle"
    /\ LET status_val == status_from_string(p.status)
       IN  IF status_val = None
           THEN /\ resp' = [error |-> ERR_INVALID_STATUS]
                /\ UNCHANGED <<presence, checkpoint>>
           ELSE /\ checkpoint < MaxWrites
                /\ resp' = [error |-> "",
                            data |-> HeartbeatData(presence, checkpoint, user, now, p)]
                /\ presence' = update_user_presence(presence, checkpoint, user, client, now,
                                                    Val(status_val))
                /\ checkpoint' = checkpoint + 1
    /\ req' = [op |-> "heartbeat", actor |-> user, client |-> client, params |-> p]
    /\ pre' = Snapshot
    /\ pc' = "responded"
    /\ UNCHANGED <<status, now, procs>>

\* POST /users/me/presence
Heartbeat(user, client, p) ==
    /\ pc = "idle"
    /\ LET status_val == status_from_string(p.status)
       IN  IF status_val = None
           THEN /\ resp' = [error |-> ERR_INVALID_STATUS]
                /\ UNCHANGED <<presence, checkpoint>>
           ELSE /\ checkpoint < MaxWrites
                /\ presence' = update_user_presence(presence, checkpoint, user, client, now,
                                                    Val(status_val))
                /\ checkpoint' = checkpoint + 1
                /\ resp' = [error |-> "",
                            data |-> HeartbeatData(presence', checkpoint', user, now, p)]
    /\ req' = [op |-> "heartbeat", actor |-> user, client |-> client, params |-> p]
    /\ pre' = Snapshot
    /\ pc' = "responded"
    /\ UNCHANGED <<status, now, procs>>

\* GET /users/{user_id_or_email}/presence
GetPresence(requester, user_id_or_email) ==
    /\ pc = "idle"
    /\ resp' = get_presence_backend(presence, now, requester, user_id_or_email)
    /\ req' = [op |-> "get_presence", actor |-> requester, target |-> user_id_or_email]
    /\ pre' = Snapshot
    /\ pc' = "responded"
    /\ UNCHANGED <<status, presence, checkpoint, now, procs>>

\* GET /realm/presence
GetStatusesForRealm(requester) ==
    /\ pc = "idle"
    /\ resp' = [error |-> "", data |-> get_statuses_for_realm(presence, checkpoint, requester, now)]
    /\ req' = [op |-> "get_statuses_for_realm", actor |-> requester]
    /\ pre' = Snapshot
    /\ pc' = "responded"
    /\ UNCHANGED <<status, presence, checkpoint, now, procs>>

PresenceNext ==
    \/ Tick
    \/ \E u \in Users, c \in Clients, p \in HeartbeatParams : Heartbeat(u, c, p)
    \/ \E r \in Users \cup {"polonius"}, t \in UserIdentifiers : GetPresence(r, t)
    \/ \E r \in Users : GetStatusesForRealm(r)
    \/ Finish

PresenceSpec == Init /\ [][PresenceNext]_vars

(***************************************************************************)
(* Status requests handled concurrently.  A handler runs the view up to    *)
(* the store call on its own (it reads no shared state), and the store     *)
(* then merges the values handed over into the user's row in one           *)
(* transaction.                                                            *)
(***************************************************************************)
ConcStatusParams ==
    [away : Opt(BOOLEAN), status_text : {None, Some(PaddedText)},
     emoji_name : {None, Some("smile")}, emoji_code : {None}, emoji_type : {None}]

\* The request arrives and the view runs up to the call of the store.  `raced`
\* records that the request was in progress together with another one.
ConcReceive(p, user, params) ==
    /\ procs[p].pc = "idle"
    /\ LET out == update_user_status_backend(params)
           racing == {q \in Procs \ {p} : procs[q].pc = "writing"}
       IN  procs' = [q \in Procs |->
                       IF q = p
                       THEN [pc |-> IF out.error = "" THEN "writing" ELSE "done",
                             user |-> user, params |-> params, args |-> out.args,
                             error |-> out.error, raced |-> racing # {}, replaced |-> FALSE]
                       ELSE IF q \in racing THEN [procs[q] EXCEPT !.raced = TRUE]
                       ELSE procs[q]]
    /\ UNCHANGED <<status, presence, checkpoint, now, pc, req, pre, resp>>

\* The fields of the StatusOverride a request sets.
FieldsSet(params) ==
    {f \in {"away", "status_text", "emoji_name"} : params[f] # None}

\* do_update_user_status runs.  `replaced` records, for a request answered
\* earlier, that this request sets a field of the same user that it had set.
ConcWrite(p) ==
    /\ procs[p].pc = "writing"
    /\ status' = do_update_user_status(status, procs[p].user, procs[p].args)
    /\ procs' = [q \in Procs |->
                   IF q = p THEN [procs[p] EXCEPT !.pc = "done"]
                   ELSE IF /\ procs[q].pc = "done" /\ procs[q].error = ""
                           /\ procs[q].user = procs[p].user
                           /\ FieldsSet(procs[q].params) \cap FieldsSet(procs[p].params) # {}
                   THEN [procs[q] EXCEPT !.replaced = TRUE]
                   ELSE procs[q]]
    /\ UNCHANGED <<presence, checkpoint, now, pc, req, pre, resp>>

\* The response has been delivered.
ConcFinish(p) ==
    /\ procs[p].pc = "done"
    /\ procs' = [procs EXCEPT ![p] = IdleProc]
    /\ UNCHANGED <<status, presence, checkpoint, now, pc, req, pre, resp>>

ConcNext ==
    \/ \E p \in Procs, u \in Users, params \in ConcStatusParams : ConcReceive(p, u, params)
    \/ \E p \in Procs : ConcWrite(p)
    \/ \E p \in Procs : ConcFinish(p)

ConcSpec == Init /\ [][ConcNext]_vars

(***************************************************************************)
(* Heartbeats handled concurrently.  A handler validates the status and    *)
(* reads the clock (line 199, the argument timezone_now()), then calls the *)
(* store, which writes the record and advances the checkpoint in one       *)
(* transaction, then builds its response from the store as it is by then.  *)
(* Every handler serves one request, so that the requests of a run stay    *)
(* on record.                                                              *)
(***************************************************************************)
Handlers == {"h1", "h2"}

ConcHeartbeatParams ==
    {p \in HeartbeatParams :
        /\ p.history_limit_days = None /\ p.last_update_id # Some(0)
        /\ p.slim_presence = (p.last_update_id # None)
        /\ p.ping_only => (p.status = "active" /\ p.last_update_id = None)
        /\ p.status = "bogus" => p.last_update_id = None}

HeartbeatInit ==
    /\ status = [u \in Users |-> DefaultStatus]
    /\ presence = [u \in Users |-> [c \in Clients |-> None]]
    /\ checkpoint = 0
    /\ now = 0
    /\ pc = "idle"
    /\ req = NoReq
    /\ pre = [status |-> status, presence |-> presence, checkpoint |-> checkpoint]
    /\ resp = NoResp
    /\ procs = [h \in Handlers |-> IdleProc]

\* lines 188-199: the request arrives, the status is validated and the clock
\* is read for the call of update_user_presence.
HeartbeatReceive(h, user, client, p) ==
    /\ procs[h].pc = "idle"
    /\ LET status_val == status_from_string(p.status)
       IN  procs' = [procs EXCEPT ![h] =
                       IF status_val = None
                       THEN [pc |-> "done", user |-> user, client |-> client, params |-> p,
                             error |-> ERR_INVALID_STATUS]
                       ELSE [pc |-> "writing", user |-> user, client |-> client, params |-> p,
                             error |-> "", time |-> now, status_val |-> Val(status_val)]]
    /\ UNCHANGED <<status, presence, checkpoint, now, pc, req, pre, resp>>

\* The fields of a handler that has written: the checkpoint of its write.
HasWritten(proc) == proc.pc \in {"reading", "done"} /\ proc.error = ""

\* line 199: update_user_presence runs.
HeartbeatWrite(h) ==
    /\ procs[h].pc = "writing"
    /\ presence' = update_user_presence(presence, checkpoint, procs[h].user, procs[h].client,
                                        procs[h].time, procs[h].status_val)
    /\ checkpoint' = checkpoint + 1
    /\ procs' = [procs EXCEPT ![h] =
                    [pc |-> IF procs[h].params.ping_only THEN "done" ELSE "reading",
                     user |-> procs[h].user, client |-> procs[h].client,
                     params |-> procs[h].params, error |-> "", time |-> procs[h].time,
                     status_val |-> procs[h].status_val, update_id |-> checkpoint + 1,
                     data |-> <<>>]]
    /\ UNCHANGED <<status, now, pc, req, pre, resp>>

\* A slip: the response reports the checkpoint of the handler's own write.
HeartbeatReadStaleCheckpoint(h) ==
    /\ procs[h].pc = "reading"
    /\ procs' = [procs EXCEPT ![h].pc = "done",
                              ![h].data = HeartbeatData(presence, procs[h].update_id,
                                                        procs[h].user, now, procs[h].params)]
    /\ UNCHANGED <<status, presence, checkpoint, now, pc, req, pre, resp>>

\* lines 201-226: the response is built.
HeartbeatRead(h) ==
    /\ procs[h].pc = "reading"
    /\ procs' = [procs EXCEPT ![h].pc = "done",
                              ![h].data = HeartbeatData(presence, checkpoint,
                                                        procs[h].user, now, procs[h].params)]
    /\ UNCHANGED <<status, presence, checkpoint, now, pc, req, pre, resp>>

HeartbeatNext ==
    \/ Tick
    \/ \E h \in Handlers, u \in Users, c \in Clients, p \in ConcHeartbeatParams :
          HeartbeatReceive(h, u, c, p)
    \/ \E h \in Handlers : HeartbeatWrite(h)
    \/ \E h \in Handlers : HeartbeatRead(h)

HeartbeatSpec == HeartbeatInit /\ [][HeartbeatNext]_vars

(***************************************************************************)
(* Properties of the status views.                                         *)
(***************************************************************************)
StatusOp == req.op \in {"update_status", "update_status_admin"}
Answered == pc = "responded" /\ StatusOp
Accepted == Answered /\ resp.error = ""
Target == req.target
EmojiOf(row) == <<row.emoji_name, row.emoji_code, row.reaction_type>>

\* C1: an updateStatus request without away, statusText and emojiName is
\* rejected as carrying no new values, whatever emojiCode or emojiType it
\* carries, and the StatusOverride of the user stays as it was.
C1_EmptyUpdateRejected ==
    (pc = "responded" /\ req.op = "update_status"
       /\ req.params.away = None /\ req.params.status_text = None
       /\ req.params.emoji_name = None)
    => (resp.error = ERR_NO_NEW_VALUES /\ status = pre.status)

C1_Witness ==
    /\ pc = "responded" /\ req.op = "update_status"
    /\ req.params.away = None /\ req.params.status_text = None
    /\ req.params.emoji_name = None /\ req.params.emoji_code = Some("1f604")
    /\ pre.status[Target] # DefaultStatus
    /\ resp.error = ERR_NO_NEW_VALUES

\* The emoji part of a request fails: the name is unknown to the lookup the
\* request needs, or the name, code and type it resolves to are not valid.
EmojiPartFails(p) ==
    /\ p.emoji_name # None /\ p.emoji_name # Some("")
    /\ LET name == Val(p.emoji_name)
           needsLookup == p.emoji_code = None \/ p.emoji_type = None
       IN  IF needsLookup /\ ~EmojiKnown(name) THEN TRUE
           ELSE LET code == IF p.emoji_code = None THEN get_emoji_data(name).emoji_code
                            ELSE Val(p.emoji_code)
                    type == IF p.emoji_type = None THEN get_emoji_data(name).reaction_type
                            ELSE Val(p.emoji_type)
                IN  ~check_emoji_request(name, code, type)

\* C2: a request whose emoji part fails is rejected and changes no field of
\* the StatusOverride, also when it carries a valid away or statusText; and
\* no rejected request has written to the store.
C2_NoPartialApplication ==
    /\ (Answered /\ EmojiPartFails(req.params)) => (resp.error # "" /\ status = pre.status)
    /\ (Answered /\ resp.error # "") => status = pre.status

C2_Witness ==
    /\ Answered /\ EmojiPartFails(req.params)
    /\ req.params.status_text = Some(PaddedText)
    /\ req.op = "update_status" => req.params.away = Some(TRUE)
    /\ pre.status[Target].status_text = EmptyText /\ ~pre.status[Target].away
    /\ resp.error = ERR_INVALID_EMOJI

\* C3: a successful update with emojiName = "" stores emojiCode "" and
\* emojiType UNICODE_EMOJI, whatever was stored and whatever code or type the
\* request carries, and calls neither the catalog lookup nor its validation.
C3_ClearEmoji ==
    (Accepted /\ req.params.emoji_name = Some(""))
    => /\ status[Target].emoji_name = ""
       /\ status[Target].emoji_code = ""
       /\ status[Target].reaction_type = UNICODE_EMOJI
       /\ ~resp.lookup /\ ~resp.checked

C3_Witness ==
    /\ Accepted /\ req.params.emoji_name = Some("")
    /\ req.params.emoji_code = Some("1f604")
    /\ req.params.emoji_type = Some(ZULIP_EXTRA_EMOJI)
    /\ EmojiOf(pre.status[Target]) = <<"zulip", "zulip", ZULIP_EXTRA_EMOJI>>
    /\ EmojiOf(status[Target]) = <<"", "", UNICODE_EMOJI>>

\* C4 as stated: after a successful update every field absent from the
\* request has its previous value.
C4_Original ==
    Accepted =>
        /\ req.params.away = None => status[Target].away = pre.status[Target].away
        /\ req.params.status_text = None
             => status[Target].status_text = pre.status[Target].status_text
        /\ req.params.emoji_name = None
             => status[Target].emoji_name = pre.status[Target].emoji_name
        /\ req.params.emoji_code = None
             => status[Target].emoji_code = pre.status[Target].emoji_code
        /\ req.params.emoji_type = None
             => status[Target].reaction_type = pre.status[Target].reaction_type

\* C4, amended: after a successful update an absent away keeps its value, an
\* absent statusText keeps its value, and with emojiName absent the emoji
\* name, code and type all keep their values; with emojiName present an
\* absent emojiCode or emojiType is not kept: it is the catalog's value for
\* the name, or the reset value when the name is empty.  No other user's
\* StatusOverride changes.
C4_PatchSemantics ==
    Accepted =>
        /\ req.params.away = None => status[Target].away = pre.status[Target].away
        /\ req.params.status_text = None
             => status[Target].status_text = pre.status[Target].status_text
        /\ req.params.emoji_name = None => EmojiOf(status[Target]) = EmojiOf(pre.status[Target])
        /\ (req.params.emoji_name # None /\ req.params.emoji_code = None)
             => status[Target].emoji_code =
                  IF req.params.emoji_name = Some("") THEN ""
                  ELSE get_emoji_data(Val(req.params.emoji_name)).emoji_code
        /\ (req.params.emoji_name # None /\ req.params.emoji_type = None)
             => status[Target].reaction_type =
                  IF req.params.emoji_name = Some("") THEN UNICODE_EMOJI
                  ELSE get_emoji_data(Val(req.params.emoji_name)).reaction_type
        /\ \A u \in Users \ {Target} : status[u] = pre.status[u]

C4_Witness ==
    /\ Accepted /\ req.op = "update_status"
    /\ req.params = [away |-> None, status_text |-> Some(PaddedText), emoji_name |-> None,
                     emoji_code |-> None, emoji_type |-> None]
    /\ pre.status[Target].away /\ pre.status[Target].emoji_name = "smile"
    /\ pre.status[Target].status_text = EmptyText
    /\ status[Target] = [pre.status[Target] EXCEPT !.status_text = <<"h", "i">>]

\* C5 as stated: a request without emojiName that carries emojiCode or
\* emojiType, whatever the value carried, is rejected and changes nothing.
C5_CodeOrTypeNeedsName ==
    (Answered /\ req.params.emoji_name = None
       /\ (req.params.emoji_code # None \/ req.params.emoji_type # None))
    => (resp.error # "" /\ status = pre.status)

\* C6: in every state the emoji name, code and type of every user are all
\* unset or all set; and a request that changes any of the three carries an
\* emoji name and leaves the three as the reset values or as a catalog entry
\* of that name.
EmojiUnset(row) == row.emoji_name = "" /\ row.emoji_code = "" /\ row.reaction_type = UNICODE_EMOJI
EmojiSet(row) == row.emoji_name # "" /\ row.emoji_code # "" /\ row.reaction_type # ""

C6_EmojiAllOrNone ==
    /\ \A u \in Users : EmojiUnset(status[u]) \/ EmojiSet(status[u])
    /\ (Answered /\ EmojiOf(status[Target]) # EmojiOf(pre.status[Target]))
       => /\ req.params.emoji_name # None
          /\ status[Target].emoji_name = Val(req.params.emoji_name)
          /\ \/ EmojiUnset(status[Target])
             \/ check_emoji_request(status[Target].emoji_name, status[Target].emoji_code,
                                    status[Target].reaction_type)

C6_Witness ==
    /\ Answered /\ req.op = "update_status_admin" /\ resp.error = ""
    /\ req.params.emoji_name = Some("zulip") /\ req.params.emoji_code = None
    /\ EmojiOf(pre.status[Target]) = <<"smile", "1f604", UNICODE_EMOJI>>
    /\ EmojiOf(status[Target]) = <<"zulip", "zulip", ZULIP_EXTRA_EMOJI>>
    /\ \E u \in Users \ {Target} : EmojiUnset(status[u])

\* The row holds the values the request carries.
HoldsValuesOf(row, params) ==
    /\ params.away # None => row.away = Val(params.away)
    /\ params.status_text # None => row.status_text = strip(Val(params.status_text))
    /\ params.emoji_name # None => row.emoji_name = Val(params.emoji_name)

\* The request of process p was accepted and written, and no later request
\* has set one of its fields since.
Written(p) == procs[p].pc = "done" /\ procs[p].error = "" /\ ~procs[p].replaced

BothWritten(p, q) ==
    /\ p # q /\ Written(p) /\ Written(q)
    /\ procs[p].user = procs[q].user
    /\ FieldsSet(procs[p].params) \cap FieldsSet(procs[q].params) = {}

\* C7: the values of an accepted update stay in the StatusOverride until a
\* later update sets the same field, in every interleaving of the handlers;
\* so when two concurrent updates of one user set different fields, the
\* StatusOverride holds the values of both once both are written.
C7_NoLostUpdates ==
    /\ \A p \in Procs : Written(p) => HoldsValuesOf(status[procs[p].user], procs[p].params)
    /\ \A p, q \in Procs :
         BothWritten(p, q)
         => /\ HoldsValuesOf(status[procs[p].user], procs[p].params)
            /\ HoldsValuesOf(status[procs[q].user], procs[q].params)

C7_Witness ==
    /\ BothWritten("p1", "p2")
    /\ procs["p1"].raced /\ procs["p2"].raced
    /\ procs["p1"].params.away = Some(TRUE) /\ procs["p1"].params.status_text = None
    /\ procs["p2"].params.away = None /\ procs["p2"].params.status_text = Some(PaddedText)
    /\ status[procs["p1"].user].away
    /\ status[procs["p1"].user].status_text = <<"h", "i">>

(***************************************************************************)
(* Properties of the presence views.                                       *)
(***************************************************************************)
PresenceAnswered == pc = "responded" /\ req.op = "get_presence" /\ resp.error = ""
PresenceTarget == Val(ResolveTarget(req.target))
StoredRecords(u) == {RecordOf(presence, u, c) : c \in ClientsOf(presence, u)}
LatestTimestamp(u) ==
    CHOOSE t \in {r.timestamp : r \in StoredRecords(u)} :
        \A r \in StoredRecords(u) : r.timestamp <= t

\* C8: the aggregated entry queryPresence returns carries the greatest
\* timestamp among the records of the target; its status is "offline"
\* exactly when now minus that timestamp exceeds the threshold, and
\* otherwise the stored status of a record with that timestamp.
C8_AggregatedOfflineRule ==
    PresenceAnswered
    => /\ StoredRecords(PresenceTarget) # {}
       /\ resp.presence["aggregated"].timestamp = LatestTimestamp(PresenceTarget)
       /\ resp.presence["aggregated"].status = "offline"
            <=> now - LatestTimestamp(PresenceTarget) > OFFLINE_THRESHOLD_SECS
       /\ resp.presence["aggregated"].status # "offline"
            => \E r \in StoredRecords(PresenceTarget) :
                  /\ r.timestamp = LatestTimestamp(PresenceTarget)
                  /\ r.status = resp.presence["aggregated"].status

C8_Witness ==
    /\ PresenceAnswered
    /\ \E c, d \in ClientsOf(presence, PresenceTarget) :
          /\ RecordOf(presence, PresenceTarget, c).timestamp = 0
          /\ RecordOf(presence, PresenceTarget, c).status = "idle"
          /\ RecordOf(presence, PresenceTarget, d).timestamp = 1
          /\ RecordOf(presence, PresenceTarget, d).status = "active"
    /\ now = 3
    /\ resp.presence["aggregated"] = [status |-> "offline", timestamp |-> 1]

\* The aggregated status and timestamp queryPresence reports for user u now.
QueryAggregated(u) == get_presence_backend(presence, now, u, Email(u)).presence["aggregated"]

\* The aggregated entry of a user in a get_presence_response payload.
ReportedAggregated(view, slim) == IF slim THEN view ELSE view["aggregated"]

ReportsPresences ==
    /\ pc = "responded" /\ req.op \in {"heartbeat", "get_statuses_for_realm"}
    /\ resp.error = "" /\ "presences" \in DOMAIN resp.data

ReportedSlim == req.op = "heartbeat" /\ EffectiveSlim(req.params)

\* C9 as stated: for every user a heartbeat response (full or slim) or
\* queryRealmStatuses reports on, the aggregated status and timestamp are
\* those queryPresence reports for the same records at the same instant.
C9_SameAggregateEverywhere ==
    ReportsPresences
    => \A u \in DOMAIN resp.data.presences :
          /\ ReportedAggregated(resp.data.presences[u], ReportedSlim).status
               = QueryAggregated(u).status
          /\ ReportedAggregated(resp.data.presences[u], ReportedSlim).timestamp
               = QueryAggregated(u).timestamp

\* C10: in a queryPresence response about another user every entry, per
\* client and aggregated, has the keys status and timestamp and no other.
C10_OtherUserEntriesStripped ==
    (PresenceAnswered /\ PresenceTarget # req.actor)
    => \A k \in DOMAIN resp.presence : DOMAIN resp.presence[k] = {"status", "timestamp"}

C10_Witness ==
    /\ PresenceAnswered /\ req.actor = "hamlet" /\ PresenceTarget = "iago"
    /\ DOMAIN resp.presence = {"website", "mobile", "aggregated"}
    /\ Pushable("mobile")
    /\ \A k \in DOMAIN resp.presence : DOMAIN resp.presence[k] = {"status", "timestamp"}

\* The per-client entries of a queryPresence response.
ClientKeys == DOMAIN resp.presence \ {"aggregated"}

\* C11: when a user queries their own presence, every per-client entry of
\* the returned view carries the pushable field of the stored record next
\* to status and timestamp.
C11_OwnViewHasPushable ==
    (PresenceAnswered /\ PresenceTarget = req.actor)
    => \A k \in ClientKeys :
          /\ DOMAIN resp.presence[k] = {"status", "timestamp", "pushable"}
          /\ resp.presence[k].pushable = Pushable(k)

\* A queryPresence request has been answered, with a view or with an error.
QueryAnswered == pc = "responded" /\ req.op = "get_presence"

\* The target exists, is not a bot and is visible to the requesting user.
TargetPassesChecks ==
    /\ ResolveTarget(req.target) # {}
    /\ BotType(PresenceTarget) = None
    /\ check_can_access_user(PresenceTarget, req.actor)

\* C12: queryPresence for an existing, visible, non-bot target without
\* records fails with "No presence data" and returns no view; with at least
\* one record it returns a view that has an aggregated entry.
C12_NoRecordsNotFound ==
    (QueryAnswered /\ TargetPassesChecks)
    => IF ClientsOf(pre.presence, PresenceTarget) = {}
       THEN resp.error = ERR_NO_PRESENCE /\ "presence" \notin DOMAIN resp
       ELSE /\ resp.error = ""
            /\ "aggregated" \in DOMAIN resp.presence
            /\ DOMAIN resp.presence["aggregated"] = {"status", "timestamp"}

C12_Witness ==
    /\ QueryAnswered /\ TargetPassesChecks
    /\ req.actor = "iago" /\ PresenceTarget = "hamlet"
    /\ ClientsOf(presence, "hamlet") = {} /\ ClientsOf(presence, "iago") # {}
    /\ resp = [error |-> ERR_NO_PRESENCE]

\* A recordHeartbeat request has been answered, with data or with an error.
HeartbeatAnswered == pc = "responded" /\ req.op = "heartbeat"
HeartbeatAccepted == HeartbeatAnswered /\ resp.error = ""

\* The fixed enumeration of the status values of a heartbeat.
StatusEnumeration == {"active", "idle"}

\* C13: a recordHeartbeat whose status string is outside the enumeration is
\* rejected as invalid, whatever its ping_only, slim_presence and
\* last_update_id; no PresenceRecord is created or changed and the
\* UpdateCheckpoint stays where it was.
C13_InvalidStatusWritesNothing ==
    (HeartbeatAnswered /\ req.params.status \notin StatusEnumeration)
    => /\ resp = [error |-> ERR_INVALID_STATUS]
       /\ presence = pre.presence
       /\ checkpoint = pre.checkpoint

C13_Witness ==
    /\ HeartbeatAnswered /\ req.params.status = "bogus"
    /\ ~req.params.ping_only /\ req.params.slim_presence
    /\ req.params.last_update_id = Some(0)
    /\ req.actor = "hamlet" /\ req.client = "mobile"
    /\ pre.presence["hamlet"]["mobile"] = None
    /\ pre.presence["hamlet"]["website"] # None
    /\ pre.checkpoint = 1
    /\ resp.error = ERR_INVALID_STATUS
    /\ presence = pre.presence /\ checkpoint = 1

\* The record an accepted heartbeat writes: the clock's reading, the status
\* of the request and the checkpoint that follows the one found.
WrittenRecord ==
    [timestamp |-> now, status |-> req.params.status, update_id |-> pre.checkpoint + 1]

HeartbeatWriteDone ==
    /\ presence[req.actor][req.client] = Some(WrittenRecord)
    /\ checkpoint = pre.checkpoint + 1

\* The clients of the requesting user other than the one of the request.
OtherClients == ClientsOf(pre.presence, req.actor) \ {req.client}

\* The entry of the requesting user in the payload of a heartbeat response.
OwnView == resp.data.presences[req.actor]

\* The full shape shows the record written and the user's other clients.
FullViewReflectsWrite ==
    /\ req.actor \in DOMAIN resp.data.presences
    /\ DOMAIN OwnView = {req.client, "aggregated"} \cup OtherClients
    /\ OwnView[req.client].status = req.params.status
    /\ OwnView[req.client].timestamp = now
    /\ \A c \in OtherClients :
          /\ OwnView[c].status = RecordOf(pre.presence, req.actor, c).status
          /\ OwnView[c].timestamp = RecordOf(pre.presence, req.actor, c).timestamp

\* C14 as stated: an accepted heartbeat has written its record; with
\* ping_only the response has no presence payload, and without it the view
\* returned shows the status and timestamp just written, in either shape,
\* and in the full shape the user's other clients with them.
C14_Original ==
    HeartbeatAccepted
    => /\ HeartbeatWriteDone
       /\ req.params.ping_only => resp.data = <<>>
       /\ ~req.params.ping_only
            => /\ req.actor \in DOMAIN resp.data.presences
               /\ IF EffectiveSlim(req.params)
                  THEN OwnView.status = req.params.status /\ OwnView.timestamp = now
                  ELSE FullViewReflectsWrite

\* C14: an accepted heartbeat has written its record; with ping_only the
\* response has no presence payload; in the full shape the view shows the
\* status and timestamp just written and the user's other clients; in the
\* slim shape the user is reported exactly when last_update_id is absent or
\* below the checkpoint of this write, with the timestamp just written and
\* the status of a record of the user that has this timestamp.
C14_HeartbeatWritesThenAnswers ==
    HeartbeatAccepted
    => /\ HeartbeatWriteDone
       /\ req.params.ping_only => resp.data = <<>>
       /\ (~req.params.ping_only /\ ~EffectiveSlim(req.params)) => FullViewReflectsWrite
       /\ (~req.params.ping_only /\ EffectiveSlim(req.params))
            => /\ req.actor \in DOMAIN resp.data.presences
                    <=> \/ req.params.last_update_id = None
                        \/ Val(req.params.last_update_id) < checkpoint
               /\ req.actor \in DOMAIN resp.data.presences
                    => /\ OwnView.timestamp = now
                       /\ \E c \in ClientsOf(presence, req.actor) :
                             /\ RecordOf(presence, req.actor, c).timestamp = now
                             /\ RecordOf(presence, req.actor, c).status = OwnView.status

C14_Witness ==
    /\ HeartbeatAccepted /\ ~req.params.ping_only /\ ~EffectiveSlim(req.params)
    /\ req.actor = "hamlet" /\ req.client = "website" /\ req.params.status = "idle"
    /\ pre.presence["hamlet"]["website"] = None
    /\ pre.presence["hamlet"]["mobile"] # None
    /\ RecordOf(presence, "hamlet", "mobile").timestamp < now
    /\ RecordOf(presence, "hamlet", "mobile").status = "active"
    /\ OwnView["website"].status = "idle" /\ OwnView["website"].timestamp = now
    /\ OwnView["mobile"].status = "active"

\* The shape of a user's entry in a heartbeat response: the slim shape is
\* the aggregated result itself, the full shape a mapping with the per-client
\* entries and "aggregated".
IsSlimEntry(entry) == DOMAIN entry = {"status", "timestamp"}
IsFullEntry(entry) == "aggregated" \in DOMAIN entry

\* Every record but the one of (user, client) of the request is as before.
OtherRecordsKept ==
    \A u \in Users, c \in Clients :
       <<u, c>> # <<req.actor, req.client>> => presence[u][c] = pre.presence[u][c]

\* C20: a recordHeartbeat that supplies last_update_id is answered in the
\* slim shape whatever its slim flag; without last_update_id the shape is
\* the one the flag selects; the write is the same in every case.
C20_LastUpdateIdForcesSlim ==
    HeartbeatAccepted
    => /\ HeartbeatWriteDone /\ OtherRecordsKept
       /\ ~req.params.ping_only
            => /\ resp.data.presence_last_update_id = checkpoint
               /\ \A u \in DOMAIN resp.data.presences :
                    IF req.params.last_update_id # None \/ req.params.slim_presence
                    THEN IsSlimEntry(resp.data.presences[u])
                    ELSE IsFullEntry(resp.data.presences[u])

C20_Witness ==
    /\ HeartbeatAccepted /\ ~req.params.ping_only
    /\ req.params.last_update_id = Some(0) /\ ~req.params.slim_presence
    /\ req.actor = "hamlet" /\ req.client = "mobile"
    /\ pre.presence["iago"]["website"] # None
    /\ DOMAIN resp.data.presences = {"hamlet", "iago"}
    /\ IsSlimEntry(resp.data.presences["hamlet"])
    /\ IsSlimEntry(resp.data.presences["iago"])
    /\ HeartbeatWriteDone

\* The checkpoints attached to the presence changes of user u.
CheckpointsOf(u) == {RecordOf(presence, u, c).update_id : c \in ClientsOf(presence, u)}

\* A slim heartbeat carrying last_update_id has been answered with a payload.
SlimSinceAnswered ==
    /\ HeartbeatAccepted /\ ~req.params.ping_only
    /\ req.params.last_update_id # None

\* The answer to a slim request holding checkpoint N: the users with a
\* change after N, no other user, and the current checkpoint; nothing
\* but the checkpoint when N is the current checkpoint.
SlimDeltaExact ==
    LET N == Val(req.params.last_update_id)
    IN  /\ resp.data.presence_last_update_id = checkpoint
        /\ \A u \in Users :
              u \in DOMAIN resp.data.presences <=> \E id \in CheckpointsOf(u) : id > N
        /\ \A u \in DOMAIN resp.data.presences : IsSlimEntry(resp.data.presences[u])
        /\ N = checkpoint => resp.data.presences = <<>>

\* Every presence change carries a checkpoint of its own, none beyond the
\* realm's current one.
CheckpointsOrdered ==
    /\ \A u \in Users : \A id \in CheckpointsOf(u) : 1 <= id /\ id <= checkpoint
    /\ \A u, v \in Users, c, d \in Clients :
          (presence[u][c] # None /\ presence[v][d] # None /\ <<u, c>> # <<v, d>>)
          => RecordOf(presence, u, c).update_id # RecordOf(presence, v, d).update_id

\* A presence write advances the checkpoint and tags the record with it;
\* nothing else moves the checkpoint.
CheckpointStep ==
    /\ checkpoint' >= checkpoint
    /\ presence' # presence
         => /\ checkpoint' > checkpoint
            /\ \A u \in Users, c \in Clients :
                  presence'[u][c] # presence[u][c]
                  => Val(presence'[u][c]).update_id = checkpoint'
    /\ presence' = presence => checkpoint' = checkpoint

PresenceRecords(store, u) ==
    {[client |-> c, timestamp |-> RecordOf(store, u, c).timestamp,
      status |-> RecordOf(store, u, c).status, pushable |-> Pushable(c)] :
        c \in ClientsOf(store, u)}

\* The AggregatedPresence of user u at instant t.
AggregatedPresence(store, u, t) == OfflineOverride(AggregatedEntry(store, u), t)

\* The store after the write of an accepted heartbeat, and after a second
\* heartbeat of the same client with the same status at the same instant.
AppliedOnce(u, c, s) == update_user_presence(presence, checkpoint, u, c, now, s)
AppliedTwice(u, c, s) == update_user_presence(AppliedOnce(u, c, s), checkpoint + 1, u, c, now, s)

\* The heartbeat answered repeats the one that wrote the record it found.
SameHeartbeatAgain ==
    /\ HeartbeatAccepted
    /\ pre.presence[req.actor][req.client] # None
    /\ RecordOf(pre.presence, req.actor, req.client).timestamp = now
    /\ RecordOf(pre.presence, req.actor, req.client).status = req.params.status

AdminOutcome(admin, target, p) == update_user_status_admin(admin, target, AdminParamsOf(p))

AdminStoreAfter(admin, target, p) ==
    IF AdminOutcome(admin, target, p).error = ""
    THEN do_update_user_status(pre.status, target, AdminOutcome(admin, target, p).args)
    ELSE pre.status

\* C19 as stated: for every partial update a user issues through updateStatus,
\* an administrator issuing the same partial update for that user on the same
\* prior state gets the same error or leaves the same StatusOverride of the
\* user, and the administrator's own StatusOverride stays as it was.
C19_AdminSameAsOwner ==
    (pc = "responded" /\ req.op = "update_status")
    => \A admin \in Users :
          access_user_by_id_for_admin(admin, req.target)
          => /\ AdminOutcome(admin, req.target, req.params).error = resp.error
             /\ AdminStoreAfter(admin, req.target, req.params)[req.target] = status[req.target]
             /\ admin # req.target
                  => AdminStoreAfter(admin, req.target, req.params)[admin] = pre.status[admin]

(***************************************************************************)
(* Properties of concurrent heartbeats.                                    *)
(***************************************************************************)
\* The handlers whose write has been applied, and the record each wrote.
Writers == {h \in Handlers : HasWritten(procs[h])}

WriteOf(h) ==
    [timestamp |-> procs[h].time, status |-> procs[h].status_val,
     update_id |-> procs[h].update_id]

\* The last write to (u, c) among the writes with a checkpoint of at most C.
LastWriters(u, c, C) ==
    {h \in Writers :
        /\ procs[h].user = u /\ procs[h].client = c /\ procs[h].update_id <= C
        /\ \A g \in Writers :
              (procs[g].user = u /\ procs[g].client = c /\ procs[g].update_id <= C)
              => procs[g].update_id <= procs[h].update_id}

\* The records that the writes with a checkpoint of at most C leave.
StoreAt(C) ==
    [u \in Users |-> [c \in Clients |->
        IF LastWriters(u, c, C) = {} THEN None
        ELSE Some(WriteOf(CHOOSE h \in LastWriters(u, c, C) : TRUE))]]

\* Handler h has answered with a presence payload.
Reported(h) == procs[h].pc = "done" /\ procs[h].error = "" /\ ~procs[h].params.ping_only

\* The users with a write whose checkpoint is above N and at most C.
WrittenBetween(N, C) ==
    {procs[h].user : h \in {g \in Writers : N < procs[g].update_id /\ procs[g].update_id <= C}}

\* The payload of handler h holds the data of the writes up to the
\* checkpoint C it reports, as far as the request asks for them, and of no
\* later write.
PayloadMatchesCheckpoint(h) ==
    LET C == procs[h].data.presence_last_update_id
        view == procs[h].data.presences
        N == IF procs[h].params.last_update_id = None THEN 0
             ELSE Val(procs[h].params.last_update_id)
    IN  /\ procs[h].update_id <= C /\ C <= checkpoint
        /\ DOMAIN view = WrittenBetween(N, C)
        /\ \A u \in DOMAIN view :
              view[u] = IF EffectiveSlim(procs[h].params) THEN AggregatedEntry(StoreAt(C), u)
                        ELSE PresenceDict(StoreAt(C), u)

\* C16: under every interleaving of heartbeats the records in the store are
\* those of the writes up to the current checkpoint, and a response that
\* reports checkpoint C holds the data of every write with checkpoint at
\* most C that its last_update_id asks for, and of no write after C.
C16_CheckpointAtomicWithData ==
    /\ checkpoint = Cardinality(Writers)
    /\ presence = StoreAt(checkpoint)
    /\ \A h \in Handlers : Reported(h) => PayloadMatchesCheckpoint(h)

C16_Witness ==
    /\ Reported("h1") /\ HasWritten(procs["h2"])
    /\ procs["h1"].user = "hamlet" /\ procs["h2"].user = "iago"
    /\ procs["h1"].update_id = 1 /\ procs["h2"].update_id = 2
    /\ procs["h1"].data.presence_last_update_id = 2
    /\ procs["h1"].params.last_update_id = Some(1)
    /\ DOMAIN procs["h1"].data.presences = {"iago"}
    /\ procs["h1"].data.presences["iago"].timestamp = procs["h2"].time

\* C17 as stated: no step lowers the timestamp of the record of a (user,
\* client) pair or removes the record, two concurrent heartbeats of one
\* client included, and a heartbeat changes the record of no pair but its own.
TimestampKept(u, c) ==
    presence[u][c] # None
    => /\ presence'[u][c] # None
       /\ Val(presence'[u][c]).timestamp >= Val(presence[u][c]).timestamp

OnePairWritten ==
    \A h \in Handlers :
       HeartbeatWrite(h)
       => \A u \in Users, c \in Clients :
             <<u, c>> # <<procs[h].user, procs[h].client>> => presence'[u][c] = presence[u][c]

C17_TimestampNeverDecreases ==
    [][(\A u \in Users, c \in Clients : TimestampKept(u, c)) /\ OnePairWritten]_vars

====
